---- MODULE Spec2Model ----
(***************************************************************************)
(* LeetCode Tracker CLI (src/leetcode_fetcher.py): the solved ledger, the  *)
(* goal store and the catalog cache as persisted documents, and one action *)
(* per command of the CLI.  Outside SpecApi and SpecRace every command     *)
(* runs to completion in one step (one invocation, single user).           *)
(* Whole-file reads and writes of the JSON documents are taken to succeed. *)
(*                                                                         *)
(* Time is the UTC clock `now` counted in ticks, TicksPerDay ticks a day.  *)
(* datetime.utcnow() is `now`; a UTC calendar date is now \div TicksPerDay;*)
(* date.today() is the local date (now + tz) \div TicksPerDay.             *)
(*                                                                         *)
(* Six specifications: Spec is the goal tracking (mark-done, mark-undo,    *)
(* profile, goals, create-goal, quick-start, over the days); SpecDaily is  *)
(* the daily selection (fetch, mark-done, mark-undo over larger catalogs); *)
(* SpecStats is profile applied to every bounded ledger; SpecApi is the    *)
(* retry loop of the remote fetch, one step per request and per wait;      *)
(* SpecZone is the commands run in any time zone; SpecRace is concurrent   *)
(* invocations whose ledger read and write are separate steps.  daily is   *)
(* the daily-selection cache file, fetched the trace of the latest fetch,  *)
(* shown the statistics the latest profile displayed, api the run of the   *)
(* remote fetch, and running the concurrent invocations.                   *)
(***************************************************************************)
EXTENDS Integers, Sequences, FiniteSets, TLC

VARIABLES now, tz, solved, goals, catalog, last, daily, fetched, shown, api, running

vars == <<now, tz, solved, goals, catalog, last, daily, fetched, shown, api, running>>

(***************************************************************************)
(* Bounds of the model.                                                    *)
(***************************************************************************)
MaxPid == 2          \* problem ids are 1..MaxPid
MaxDay == 1          \* the tool is run on UTC days 0..MaxDay and on the LateDays
TicksPerDay == 2     \* clock resolution
MaxUserGoals == 1    \* create-goal is offered while fewer goals were typed in
MaxTarget == 1       \* targets typed at create-goal are 1..MaxTarget
MaxDailyPid == 4     \* the daily selection draws from problem ids 1..MaxDailyPid
MaxSolves == 5       \* ledgers given to the statistics hold up to MaxSolves records
MaxStreakDay == 5    \* their records are of days 0..MaxStreakDay
MaxInvocations == 2  \* invocations of the tool that run at the same time

(***************************************************************************)
(* Program constants.                                                      *)
(***************************************************************************)
WEEK_DAYS == 7               \* timedelta(days=7) in update_goal_progress
DEFAULT_DEADLINE_DAYS == 30  \* create_goal(deadline_days=30)
CACHE_TTL_DAYS == 1          \* is_cache_valid(ttl_days=1)
MAX_RETRIES == 3             \* attempts of fetch_all_problems

\* GoalType
TOTAL_SOLVED == "total_solved"
DAILY_STREAK == "daily_streak"
DIFFICULTY_COUNT == "difficulty_count"
WEEKLY_TARGET == "weekly_target"
GoalType == {TOTAL_SOLVED, DAILY_STREAK, DIFFICULTY_COUNT, WEEKLY_TARGET}

\* GoalStatus
ACTIVE == "active"
COMPLETED == "completed"
FAILED == "failed"
GoalStatus == {ACTIVE, COMPLETED, FAILED}

\* Difficulty; None is Python's None (Goal.difficulty is Optional)
EASY == "Easy"
MEDIUM == "Medium"
HARD == "Hard"
Difficulty == {EASY, MEDIUM, HARD}
None == "None"

(***************************************************************************)
(* The remote catalog.  A Problem is identified by its id; its difficulty  *)
(* is fixed per id.  A response of the remote API is a failure or a set of *)
(* problems.                                                               *)
(***************************************************************************)
PIDs == 1..MaxPid

DifficultyOf(pid) ==
    CASE pid % 3 = 1 -> EASY
      [] pid % 3 = 2 -> MEDIUM
      [] OTHER -> HARD

\* the premium problems of the remote catalog
PaidOnly(pid) == pid = 2

RemoteCatalogs == {PIDs, PIDs \ {1}}

\* the larger catalogs the daily selection is drawn from
DailyPIDs == 1..MaxDailyPid

DailyCatalogs == {DailyPIDs, {1}}

DailyResponses ==
    {[ok |-> FALSE, problems |-> {}]}
        \cup {[ok |-> TRUE, problems |-> c] : c \in DailyCatalogs}

Responses ==
    {[ok |-> FALSE, problems |-> {}]}
        \cup {[ok |-> TRUE, problems |-> c] : c \in RemoteCatalogs}

\* fetch_all_problems raising after its attempts
FetchFailed == [ok |-> FALSE, problems |-> {}]

\* local time is UTC plus tz ticks, less than a day either way
TZs == {t \in -1..1 : t < TicksPerDay /\ -t < TicksPerDay}

(***************************************************************************)
(* Clock and dates.                                                        *)
(***************************************************************************)
utcnow == now

DateOf(ts) == ts \div TicksPerDay

today == (now + tz) \div TicksPerDay

\* The instants at which the tool is run in Spec: the start of each of the
\* first days, and of the day right after the 30-day deadline of a goal
\* created on day 0.
LateDays == {DEFAULT_DEADLINE_DAYS + 1}

Instants == {d * TicksPerDay : d \in (0..MaxDay) \cup LateDays}

NextInstant(t) ==
    CHOOSE u \in Instants : u > t /\ \A v \in Instants : v > t => u <= v

(***************************************************************************)
(* Data models.  Title, slug and acceptance rate are display payload that  *)
(* no decision reads; they are left out of the records.                    *)
(***************************************************************************)
Problem(pid) == [id |-> pid, difficulty |-> DifficultyOf(pid), paid_only |-> PaidOnly(pid)]

\* SolvedProblem.from_problem, stamped with datetime.utcnow()
from_problem(problem, ts) ==
    [problem_id |-> problem.id, difficulty |-> problem.difficulty, completed_at |-> ts]

\* Goal.days_remaining
days_remaining(goal, tday) == goal.deadline - tday

(***************************************************************************)
(* LeetCodeAPI.fetch_all_problems, one step per request and per sleep.     *)
(* A request ends in a dict of problems or in an exception; the except     *)
(* clause names aiohttp.ClientError, KeyError and ValueError, and any      *)
(* other exception (a TypeError from a null field of the payload, the      *)
(* asyncio.TimeoutError of the session timeout) leaves the loop at once.   *)
(***************************************************************************)
CaughtErrors == {"ClientError", "KeyError", "ValueError"}
OtherErrors == {"TypeError", "TimeoutError"}

Outcomes ==
    {[ok |-> TRUE, problems |-> c, error |-> "none"] : c \in RemoteCatalogs \cup DailyCatalogs}
        \cup {[ok |-> FALSE, problems |-> {}, error |-> e] : e \in CaughtErrors \cup OtherErrors}

\* the try block and its except clause, for the request of loop pass a.attempt
api_request(a, outcome) ==
    IF outcome.ok
    THEN [a EXCEPT !.requests = @ + 1, !.pc = "returned", !.result = outcome.problems]
    ELSE IF outcome.error \in CaughtErrors
         THEN IF a.attempt = MAX_RETRIES - 1
              THEN [a EXCEPT !.requests = @ + 1, !.caught = Append(@, outcome.error),
                             !.pc = "raised", !.raised = outcome.error]
              ELSE [a EXCEPT !.requests = @ + 1, !.caught = Append(@, outcome.error),
                             !.pc = "sleep"]
         ELSE [a EXCEPT !.requests = @ + 1, !.pc = "raised", !.raised = outcome.error]

\* asyncio.sleep(2 ** attempt), then the next pass of the for loop, or the
\* return {} behind it
api_sleep(a) ==
    [a EXCEPT !.slept = Append(@, 2 ^ a.attempt),
              !.attempt = @ + 1,
              !.pc = IF a.attempt + 1 < MAX_RETRIES THEN "request" ELSE "returned"]

\* what get_all_problems sees of the call
api_response(a) == [ok |-> a.pc = "returned", problems |-> a.result]

(***************************************************************************)
(* CacheService / ProblemService: the catalog cache.                       *)
(* catalog = [exists, problems, mdate]: the all_problems.json file, the    *)
(* ids it holds, and the local date of its modification time.              *)
(***************************************************************************)
is_cache_valid(cache, tday) ==
    cache.exists /\ (tday - cache.mdate) < CACHE_TTL_DAYS

\* get_all_problems: [problems |-> the dict returned, cache |-> the file afterwards]
get_all_problems(cache, force_refresh, response, tday) ==
    IF ~force_refresh /\ is_cache_valid(cache, tday)
    THEN [problems |-> cache.problems, cache |-> cache]
    ELSE IF response.ok
         THEN [problems |-> response.problems,
               cache |-> [exists |-> TRUE, problems |-> response.problems, mdate |-> tday]]
         ELSE [problems |-> cache.problems, cache |-> cache]

(***************************************************************************)
(* ProblemService: the solved ledger.                                      *)
(***************************************************************************)
\* [sp for sp in solved if sp.problem_id != problem_id]
RECURSIVE OtherRecords(_, _)
OtherRecords(ledger, problem_id) ==
    IF Len(ledger) = 0 THEN <<>>
    ELSE IF Head(ledger).problem_id # problem_id
         THEN <<Head(ledger)>> \o OtherRecords(Tail(ledger), problem_id)
         ELSE OtherRecords(Tail(ledger), problem_id)

\* mark_problem_solved without the "already solved" check
mark_problem_solved_unchecked(ledger, problem_id, problem, ts) ==
    [ok |-> TRUE, solved |-> Append(ledger, from_problem(problem, ts))]

\* ProblemService.mark_problem_solved: [ok |-> returned value, solved |-> ledger afterwards]
mark_problem_solved(ledger, problem_id, problem, ts) ==
    IF \E i \in 1..Len(ledger) : ledger[i].problem_id = problem_id
    THEN [ok |-> FALSE, solved |-> ledger]
    ELSE [ok |-> TRUE, solved |-> Append(ledger, from_problem(problem, ts))]

\* mark_problem_unsolved that empties the ledger when the id is in it
mark_problem_unsolved_clear(ledger, problem_id) ==
    IF \E i \in 1..Len(ledger) : ledger[i].problem_id = problem_id
    THEN [ok |-> TRUE, solved |-> <<>>]
    ELSE [ok |-> FALSE, solved |-> ledger]

\* ProblemService.mark_problem_unsolved
mark_problem_unsolved(ledger, problem_id) ==
    LET kept == OtherRecords(ledger, problem_id)
    IN IF Len(kept) = Len(ledger)
       THEN [ok |-> FALSE, solved |-> ledger]
       ELSE [ok |-> TRUE, solved |-> kept]

(***************************************************************************)
(* ProblemService: the daily selection.  daily is the daily_problems.json  *)
(* file: a function from the cached dates to the selection stored for      *)
(* them, a selection giving each tier a problem id or NoProblem.  The list *)
(* all_problems.values() is taken in ascending id order.                   *)
(***************************************************************************)
NoProblem == 0
NoSelections == [d \in {} |-> [diff \in Difficulty |-> NoProblem]]

\* int(seed_date.strftime("%Y%m%d")), day 0 being 2024-01-01; good for the
\* days from December 2023 to February 2024
yyyymmdd(d) ==
    IF d < 0 THEN 20231232 + d
    ELSE IF d < 31 THEN 20240101 + d
    ELSE 20240201 + (d - 31)

\* The random module: a generator whose state after random.seed(n) is a
\* function of n alone, and which random.choice advances once per call.
random_seed(n) == n % 1009

random_step(state) == (state * 7 + 3) % 1009

random_choice(seq, state) ==
    [value |-> seq[(random_step(state) % Len(seq)) + 1], state |-> random_step(state)]

\* a set of ids or dates as an ascending list
RECURSIVE Ascending(_)
Ascending(S) ==
    IF S = {} THEN <<>>
    ELSE LET m == CHOOSE x \in S : \A y \in S : x <= y
         IN <<m>> \o Ascending(S \ {m})

\* iteration order of the Difficulty enum
Tiers == <<EASY, MEDIUM, HARD>>

\* free_unsolved, without the paid_only test
free_unsolved_with_paid(all_problems, ledger) ==
    {pid \in all_problems : \A i \in 1..Len(ledger) : ledger[i].problem_id # pid}

\* free_unsolved: not paid_only and not in solved_ids
free_unsolved(all_problems, ledger) ==
    {pid \in all_problems :
        /\ ~Problem(pid).paid_only
        /\ \A i \in 1..Len(ledger) : ledger[i].problem_id # pid}

\* problems_by_diff[difficulty]
problems_by_diff(candidates, difficulty) ==
    Ascending({pid \in candidates : Problem(pid).difficulty = difficulty})

\* the dict comprehension of random.choice calls: the generator state before
\* the draw of tier k
RECURSIVE StateBefore(_, _, _)
StateBefore(candidates, k, state) ==
    IF k = 1 THEN state
    ELSE LET before == StateBefore(candidates, k - 1, state)
             problems == problems_by_diff(candidates, Tiers[k - 1])
         IN IF Len(problems) # 0 THEN random_choice(problems, before).state ELSE before

daily_problems(candidates, state) ==
    [diff \in Difficulty |->
        LET k == CHOOSE j \in 1..Len(Tiers) : Tiers[j] = diff
            problems == problems_by_diff(candidates, diff)
        IN IF Len(problems) # 0
           THEN random_choice(problems, StateBefore(candidates, k, state)).value
           ELSE NoProblem]

\* the selection drawn from the generator as the process started it
generate_daily_problems_unseeded(daily_cache, cache, ledger, seed_date, response, tday, process_state) ==
    LET all_problems == get_all_problems(cache, FALSE, response, tday)
        candidates == free_unsolved(all_problems.problems, ledger)
        problems == daily_problems(candidates, process_state)
    IN [problems |-> problems,
        daily |-> [d \in DOMAIN daily_cache \cup {seed_date} |->
                      IF d = seed_date THEN problems ELSE daily_cache[d]],
        catalog |-> all_problems.cache,
        all_problems |-> all_problems.problems,
        loaded |-> TRUE,
        draws |-> Cardinality({diff \in Difficulty :
                                  Len(problems_by_diff(candidates, diff)) # 0})]

\* the selection that keeps paid-only problems among the candidates
generate_daily_problems_with_paid(daily_cache, cache, ledger, seed_date, response, tday, process_state) ==
    LET all_problems == get_all_problems(cache, FALSE, response, tday)
        candidates == free_unsolved_with_paid(all_problems.problems, ledger)
        problems == daily_problems(candidates, random_seed(yyyymmdd(seed_date)))
    IN [problems |-> problems,
        daily |-> [d \in DOMAIN daily_cache \cup {seed_date} |->
                      IF d = seed_date THEN problems ELSE daily_cache[d]],
        catalog |-> all_problems.cache,
        all_problems |-> all_problems.problems,
        loaded |-> TRUE,
        draws |-> Cardinality({diff \in Difficulty :
                                  Len(problems_by_diff(candidates, diff)) # 0})]

\* generate_daily_problems: [problems |-> the selection returned, daily and
\* catalog |-> the two cache files afterwards, all_problems |-> the catalog
\* it drew from, loaded |-> whether it called get_all_problems, draws |->
\* the number of random.choice calls]; process_state is the generator state
\* the process started with
generate_daily_problems(daily_cache, cache, ledger, seed_date, response, tday, process_state) ==
    LET all_problems == get_all_problems(cache, FALSE, response, tday)
        candidates == free_unsolved(all_problems.problems, ledger)
        problems == daily_problems(candidates, random_seed(yyyymmdd(seed_date)))
    IN [problems |-> problems,
        daily |-> [d \in DOMAIN daily_cache \cup {seed_date} |->
                      IF d = seed_date THEN problems ELSE daily_cache[d]],
        catalog |-> all_problems.cache,
        all_problems |-> all_problems.problems,
        loaded |-> TRUE,
        draws |-> Cardinality({diff \in Difficulty :
                                  Len(problems_by_diff(candidates, diff)) # 0})]

(***************************************************************************)
(* StatsService.                                                           *)
(***************************************************************************)
\* the while loop of _calculate_streaks: walk back from check_date
RECURSIVE StreakFrom(_, _)
StreakFrom(dates, check_date) ==
    IF check_date \in dates THEN 1 + StreakFrom(dates, check_date - 1) ELSE 0

SolvedDates(ledger) == {DateOf(ledger[i].completed_at) : i \in 1..Len(ledger)}

\* a streak that counts every solved date
current_streak_all_dates(ledger, tday) == Cardinality(SolvedDates(ledger))

current_streak(ledger, tday) ==
    IF Len(ledger) = 0 THEN 0 ELSE StreakFrom(SolvedDates(ledger), tday)

\* the tally loop of calculate_stats
RECURSIVE CountDifficulty(_, _)
CountDifficulty(ledger, diff) ==
    IF Len(ledger) = 0 THEN 0
    ELSE (IF Head(ledger).difficulty = diff THEN 1 ELSE 0)
             + CountDifficulty(Tail(ledger), diff)

Max(a, b) == IF a >= b THEN a ELSE b

\* the for loop of _calculate_streaks over dates[1..]: longest_streak and
\* temp_streak after the iteration that looks at dates[i] (1-based here)
RECURSIVE StreakLoop_no_reset(_, _)
StreakLoop_no_reset(dates, i) ==
    IF i < 2 THEN [longest_streak |-> 1, temp_streak |-> 1]
    ELSE LET s == StreakLoop_no_reset(dates, i - 1)
         IN IF dates[i] - dates[i - 1] = 1
            THEN [longest_streak |-> Max(s.longest_streak, s.temp_streak + 1),
                  temp_streak |-> s.temp_streak + 1]
            ELSE s

RECURSIVE StreakLoop(_, _)
StreakLoop(dates, i) ==
    IF i < 2 THEN [longest_streak |-> 1, temp_streak |-> 1]
    ELSE LET s == StreakLoop(dates, i - 1)
         IN IF dates[i] - dates[i - 1] = 1
            THEN [longest_streak |-> Max(s.longest_streak, s.temp_streak + 1),
                  temp_streak |-> s.temp_streak + 1]
            ELSE [longest_streak |-> s.longest_streak, temp_streak |-> 1]

\* the longest streak left at its initial value
longest_streak_one(ledger) == IF Len(ledger) = 0 THEN 0 ELSE 1

longest_streak(ledger) ==
    IF Len(ledger) = 0 THEN 0
    ELSE LET dates == Ascending(SolvedDates(ledger))
         IN Max(StreakLoop(dates, Len(dates)).longest_streak, 1)

\* _generate_heatmap(days=30); the symbols are named by their colour
HEATMAP_DAYS == 30
HEATMAP_LEVELS ==
    [level \in 0..4 |->
        CASE level = 0 -> "black"
          [] level = 1 -> "green"
          [] level = 2 -> "yellow"
          [] level = 3 -> "orange"
          [] OTHER -> "red"]

\* daily_counts.get(day_date, 0)
RECURSIVE daily_count(_, _)
daily_count(ledger, day_date) ==
    IF Len(ledger) = 0 THEN 0
    ELSE (IF DateOf(Head(ledger).completed_at) = day_date THEN 1 ELSE 0)
             + daily_count(Tail(ledger), day_date)

\* the threshold scan without its lowest level
RECURSIVE heat_symbols_above_zero(_, _)
heat_symbols_above_zero(count, threshold) ==
    IF threshold < 1 THEN <<>>
    ELSE IF count >= threshold THEN <<HEATMAP_LEVELS[threshold]>>
    ELSE heat_symbols_above_zero(count, threshold - 1)

\* the inner loop over sorted(HEATMAP_LEVELS.items(), reverse=True) from
\* threshold down: what it appends to the heatmap
RECURSIVE heat_symbols(_, _)
heat_symbols(count, threshold) ==
    IF threshold < 0 THEN <<>>
    ELSE IF count >= threshold THEN <<HEATMAP_LEVELS[threshold]>>
    ELSE heat_symbols(count, threshold - 1)

\* the outer loop with today first
RECURSIVE HeatmapLoop_newest_first(_, _, _)
HeatmapLoop_newest_first(ledger, tday, i) ==
    IF i < 0 THEN <<>>
    ELSE HeatmapLoop_newest_first(ledger, tday, i - 1)
             \o heat_symbols(daily_count(ledger, tday - i), 4)

\* the outer loop over date_range = [today - i for i in range(days-1, -1, -1)],
\* from today - i on
RECURSIVE HeatmapLoop(_, _, _)
HeatmapLoop(ledger, tday, i) ==
    IF i < 0 THEN <<>>
    ELSE heat_symbols(daily_count(ledger, tday - i), 4)
             \o HeatmapLoop(ledger, tday, i - 1)

generate_heatmap(ledger, tday) ==
    IF Len(ledger) = 0 THEN [i \in 1..HEATMAP_DAYS |-> HEATMAP_LEVELS[0]]
    ELSE HeatmapLoop(ledger, tday, HEATMAP_DAYS - 1)

\* calculate_stats without the heatmap: the counts and the streaks
counts_and_streaks(ledger, tday) ==
    IF Len(ledger) = 0
    THEN [total_solved |-> 0,
          by_difficulty |-> [d \in Difficulty |-> 0],
          current_streak |-> 0,
          longest_streak |-> 0]
    ELSE [total_solved |-> Len(ledger),
          by_difficulty |-> [d \in Difficulty |-> CountDifficulty(ledger, d)],
          current_streak |-> current_streak(ledger, tday),
          longest_streak |-> longest_streak(ledger)]

calculate_stats(ledger, tday) ==
    LET s == counts_and_streaks(ledger, tday)
    IN [total_solved |-> s.total_solved,
        by_difficulty |-> s.by_difficulty,
        current_streak |-> s.current_streak,
        longest_streak |-> s.longest_streak,
        heatmap |-> generate_heatmap(ledger, tday)]

\* no statistics on screen
NoStats ==
    [total_solved |-> -1, by_difficulty |-> [d \in Difficulty |-> 0],
     current_streak |-> 0, longest_streak |-> 0, heatmap |-> <<>>]

(***************************************************************************)
(* GoalService.  A Goal is [id, name, type, target, current, difficulty,   *)
(* created_date, deadline, status].                                        *)
(***************************************************************************)
\* a weekly count that takes every record
recent_solves_all(ledger, tnow) == Len(ledger)

\* recent_solves of update_goal_progress: completed_at >= utcnow() - 7 days
RECURSIVE recent_solves(_, _)
recent_solves(ledger, tnow) ==
    IF Len(ledger) = 0 THEN 0
    ELSE (IF Head(ledger).completed_at >= tnow - WEEK_DAYS * TicksPerDay THEN 1 ELSE 0)
             + recent_solves(Tail(ledger), tnow)

\* the chain with the streak goals fed the total
goal_current_total(goal, stats, recent) ==
    IF goal.type = TOTAL_SOLVED \/ goal.type = DAILY_STREAK THEN stats.total_solved
    ELSE IF goal.type = DIFFICULTY_COUNT /\ goal.difficulty # None
         THEN stats.by_difficulty[goal.difficulty]
    ELSE IF goal.type = WEEKLY_TARGET THEN recent
    ELSE goal.current

\* the "update progress based on goal type" chain, lines 512-519
goal_current(goal, stats, recent) ==
    IF goal.type = TOTAL_SOLVED THEN stats.total_solved
    ELSE IF goal.type = DAILY_STREAK THEN stats.current_streak
    ELSE IF goal.type = DIFFICULTY_COUNT /\ goal.difficulty # None
         THEN stats.by_difficulty[goal.difficulty]
    ELSE IF goal.type = WEEKLY_TARGET THEN recent
    ELSE goal.current

\* the completion chain with the deadline test first
goal_status_deadline_first(goal, tday) ==
    IF days_remaining(goal, tday) < 0 THEN FAILED
    ELSE IF goal.current >= goal.target THEN COMPLETED
    ELSE goal.status

\* the "check goal completion" chain, lines 522-525
goal_status(goal, tday) ==
    IF goal.current >= goal.target THEN COMPLETED
    ELSE IF days_remaining(goal, tday) < 0 THEN FAILED
    ELSE goal.status

\* the loop body without the "status != ACTIVE: continue" guard
update_goal_any_status(goal, stats, recent, tday) ==
    LET g == [goal EXCEPT !.current = goal_current(goal, stats, recent)]
    IN [g EXCEPT !.status = goal_status(g, tday)]

\* one iteration of the loop over goals in update_goal_progress
update_goal(goal, stats, recent, tday) ==
    IF goal.status # ACTIVE THEN goal
    ELSE LET g == [goal EXCEPT !.current = goal_current(goal, stats, recent)]
         IN [g EXCEPT !.status = goal_status(g, tday)]

\* GoalService.update_goal_progress: the goal store afterwards
update_goal_progress(gs, ledger, tnow, tday) ==
    IF Len(gs) = 0 THEN gs
    ELSE LET stats == counts_and_streaks(ledger, tday)
             recent == recent_solves(ledger, tnow)
         IN [i \in 1..Len(gs) |-> update_goal(gs[i], stats, recent, tday)]

\* the id of the first goal in place of the largest
MaxGoalId_first(gs) == IF Len(gs) = 0 THEN 0 ELSE gs[1].id

\* max([g.id for g in goals], default=0)
MaxGoalId(gs) ==
    IF Len(gs) = 0 THEN 0
    ELSE CHOOSE m \in {gs[i].id : i \in 1..Len(gs)} :
             \A i \in 1..Len(gs) : gs[i].id <= m

\* GoalService.create_goal: the goal store afterwards
create_goal(gs, name, goal_type, target, difficulty, deadline_days, tday) ==
    Append(gs, [id |-> MaxGoalId(gs) + 1,
                name |-> name,
                type |-> goal_type,
                target |-> target,
                current |-> 0,
                difficulty |-> difficulty,
                created_date |-> tday,
                deadline |-> tday + deadline_days,
                status |-> ACTIVE])

starter_goals ==
    << [name |-> "First Steps", type |-> TOTAL_SOLVED, target |-> 5, days |-> 14],
       [name |-> "Weekly Warrior", type |-> WEEKLY_TARGET, target |-> 3, days |-> 7],
       [name |-> "Streak Builder", type |-> DAILY_STREAK, target |-> 3, days |-> 10] >>

\* the loop of create_starter_goals over starter_goals[k..]
RECURSIVE AddStarters(_, _, _)
AddStarters(gs, k, tday) ==
    IF k > Len(starter_goals) THEN gs
    ELSE AddStarters(
             create_goal(gs, starter_goals[k].name, starter_goals[k].type,
                         starter_goals[k].target, None, starter_goals[k].days, tday),
             k + 1, tday)

\* create_starter_goals without the "already has goals" guard
create_starter_goals_unguarded(gs, tday) ==
    [ok |-> TRUE, goals |-> AddStarters(gs, 1, tday)]

\* GoalService.create_starter_goals: [ok |-> returned value, goals |-> store afterwards]
create_starter_goals(gs, tday) ==
    IF Len(gs) # 0
    THEN [ok |-> FALSE, goals |-> gs]
    ELSE [ok |-> TRUE, goals |-> AddStarters(gs, 1, tday)]

(***************************************************************************)
(* LeetCodeTracker: the command handlers.  Each yields the message it      *)
(* prints (out), the documents afterwards, and whether it called           *)
(* update_goal_progress (refreshed).                                       *)
(***************************************************************************)
NOT_FOUND == "not found"
MARKED_SOLVED == "marked as solved"
ALREADY_SOLVED == "was already solved"
MARKED_UNSOLVED == "marked as unsolved"
NOT_SOLVED == "was not marked as solved"
GOAL_CREATED == "created goal"
INVALID_GOAL == "invalid goal parameters"
STARTERS_CREATED == "created starter goals"
HAS_GOALS == "already have goals"
SHOWN == "shown"

\* the handler refreshing the goals on every path, "not found" included
tracker_mark_problem_solved_refresh(ledger, gs, cache, problem_id, force_refresh, response, tnow, tday) ==
    LET all_problems == get_all_problems(cache, force_refresh, response, tday)
    IN IF problem_id \notin all_problems.problems
       THEN [out |-> NOT_FOUND, solved |-> ledger,
             goals |-> update_goal_progress(gs, ledger, tnow, tday),
             catalog |-> all_problems.cache, refreshed |-> TRUE]
       ELSE LET r == mark_problem_solved(ledger, problem_id, Problem(problem_id), tnow)
            IN [out |-> IF r.ok THEN MARKED_SOLVED ELSE ALREADY_SOLVED,
                solved |-> r.solved,
                goals |-> update_goal_progress(gs, r.solved, tnow, tday),
                catalog |-> all_problems.cache, refreshed |-> TRUE]

\* LeetCodeTracker.mark_problem_solved
tracker_mark_problem_solved(ledger, gs, cache, problem_id, force_refresh, response, tnow, tday) ==
    LET all_problems == get_all_problems(cache, force_refresh, response, tday)
    IN IF problem_id \notin all_problems.problems
       THEN [out |-> NOT_FOUND, solved |-> ledger, goals |-> gs,
             catalog |-> all_problems.cache, refreshed |-> FALSE]
       ELSE LET r == mark_problem_solved(ledger, problem_id, Problem(problem_id), tnow)
            IN IF r.ok
               THEN [out |-> MARKED_SOLVED, solved |-> r.solved,
                     goals |-> update_goal_progress(gs, r.solved, tnow, tday),
                     catalog |-> all_problems.cache, refreshed |-> TRUE]
               ELSE [out |-> ALREADY_SOLVED, solved |-> r.solved, goals |-> gs,
                     catalog |-> all_problems.cache, refreshed |-> FALSE]

\* LeetCodeTracker.fetch_daily_problems: force_refresh is not passed on
fetch_daily_problems(daily_cache, cache, ledger, target_date, force_refresh, response, tday, process_state) ==
    generate_daily_problems(daily_cache, cache, ledger, target_date, response, tday, process_state)

\* LeetCodeTracker.mark_problem_unsolved
tracker_mark_problem_unsolved(ledger, gs, problem_id, tnow, tday) ==
    LET r == mark_problem_unsolved(ledger, problem_id)
    IN IF r.ok
       THEN [out |-> MARKED_UNSOLVED, solved |-> r.solved,
             goals |-> update_goal_progress(gs, r.solved, tnow, tday),
             refreshed |-> TRUE]
       ELSE [out |-> NOT_SOLVED, solved |-> r.solved, goals |-> gs,
             refreshed |-> FALSE]

\* show_profile bootstrapping the starter goals into an empty store
show_profile_bootstrap(ledger, gs, tnow, tday) ==
    [stats |-> calculate_stats(ledger, tday),
     goals |-> update_goal_progress(create_starter_goals(gs, tday).goals, ledger, tnow, tday)]

\* LeetCodeTracker.show_profile: the stats displayed and the goal store afterwards
show_profile(ledger, gs, tnow, tday) ==
    [stats |-> calculate_stats(ledger, tday),
     goals |-> update_goal_progress(gs, ledger, tnow, tday)]

\* LeetCodeTracker.show_goals
show_goals(ledger, gs, tnow, tday) == update_goal_progress(gs, ledger, tnow, tday)

\* what main and LeetCodeTracker.create_goal accept as typed input
GoalTypeInputs == GoalType \cup {"bogus"}
DifficultyInputs == {"", EASY, MEDIUM, "bogus"}
Targets == 1..MaxTarget

\* LeetCodeTracker.create_goal; difficulty is the typed string, "" or None when
\* nothing was typed; GoalType(..) and Difficulty(..) raise ValueError
tracker_create_goal(gs, name, goal_type, target, difficulty, tday) ==
    IF goal_type \notin GoalType
    THEN [out |-> INVALID_GOAL, goals |-> gs]
    ELSE IF difficulty \notin {"", None} /\ difficulty \notin Difficulty
    THEN [out |-> INVALID_GOAL, goals |-> gs]
    ELSE LET difficulty_enum == IF difficulty \in {"", None} THEN None ELSE difficulty
         IN [out |-> GOAL_CREATED,
             goals |-> create_goal(gs, name, goal_type, target, difficulty_enum,
                                   DEFAULT_DEADLINE_DAYS, tday)]

\* LeetCodeTracker.setup_starter_goals
setup_starter_goals(gs, tday) ==
    LET r == create_starter_goals(gs, tday)
    IN [out |-> IF r.ok THEN STARTERS_CREATED ELSE HAS_GOALS, goals |-> r.goals]

(***************************************************************************)
(* The state machine.  last is the trace of the latest invocation: the     *)
(* command, the id it was given, what it printed, the ledger it started    *)
(* from, whether it called update_goal_progress, the ids of the goals      *)
(* whose status it changed, the totals a profile view showed, and what the *)
(* invocation before it printed when that was mark-done of the same id.    *)
(***************************************************************************)
Idle ==
    [cmd |-> "none", id |-> 0, out |-> "none", before |-> <<>>,
     refreshed |-> FALSE, moved |-> {}, total_solved |-> 0, current_streak |-> 0,
     prev_out |-> "none"]

\* fetched is the trace of the latest fetch, kept until the next invocation:
\* its date, the selection shown, the catalog drawn from, the number of
\* random draws, whether the catalog was loaded, whether the date was in the
\* daily cache beforehand, and, when the invocation before was a fetch of
\* the same date from the same catalog and ledger (rerun), what that showed.
NoFetch ==
    [date |-> 0, problems |-> [diff \in Difficulty |-> NoProblem], all_problems |-> {},
     draws |-> 0, loaded |-> FALSE, cached_before |-> FALSE, rerun |-> FALSE,
     prev_problems |-> [diff \in Difficulty |-> NoProblem]]

\* api is the run of LeetCodeAPI.fetch_all_problems: its place (pc), the loop
\* variable attempt, the number of requests sent, the delays slept, the
\* exceptions caught, and the dict returned or the exception raised.
NoRequest ==
    [pc |-> "idle", attempt |-> 0, requests |-> 0, slept |-> <<>>, caught |-> <<>>,
     result |-> {}, raised |-> "none"]

\* running is the state of the invocations that race on the ledger file:
\* for each, its place, its command, the id given, the ledger it read and
\* whether it wrote; and the latest writer with the document it wrote.
NoInvocations == [procs |-> <<>>, last_writer |-> 0, written |-> <<>>]

Moved(old, new) ==
    {old[i].id : i \in {j \in 1..Len(old) : j <= Len(new) /\ new[j].status # old[j].status}}

Ran(cmd, id, out, refreshed, new_goals) ==
    [cmd |-> cmd, id |-> id, out |-> out, before |-> solved,
     refreshed |-> refreshed, moved |-> Moved(goals, new_goals),
     total_solved |-> 0, current_streak |-> 0,
     prev_out |-> IF last.cmd = "mark-done" /\ id # 0 /\ last.id = id
                  THEN last.out ELSE "none"]

\* Spec and SpecDaily run in the UTC zone
Init ==
    /\ now = 0
    /\ tz = 0
    /\ solved = <<>>
    /\ goals = <<>>
    /\ catalog = [exists |-> FALSE, problems |-> {}, mdate |-> 0]
    /\ last = Idle
    /\ daily = NoSelections
    /\ fetched = NoFetch
    /\ shown = NoStats
    /\ api = NoRequest
    /\ running = NoInvocations

\* leetcode mark-done ID [--refresh-cache]
MarkDone(problem_id, force_refresh, response) ==
    \E r \in {tracker_mark_problem_solved(solved, goals, catalog, problem_id,
                                        force_refresh, response, utcnow, today)} :
       /\ solved' = r.solved
       /\ goals' = r.goals
       /\ catalog' = r.catalog
       /\ last' = Ran("mark-done", problem_id, r.out, r.refreshed, r.goals)
       /\ shown' = NoStats /\ fetched' = NoFetch
       /\ UNCHANGED <<now, tz, daily, api, running>>

\* leetcode fetch [--today | --yesterday | -d DATE] [--refresh-cache]
Fetch(seed_date, force_refresh, response, process_state) ==
    \E r \in {fetch_daily_problems(daily, catalog, solved, seed_date, force_refresh,
                                    response, today, process_state)} :
    LET rerun == /\ last.cmd = "fetch"
                 /\ fetched.date = seed_date
                 /\ fetched.all_problems = r.all_problems
    IN /\ daily' = r.daily
       /\ catalog' = r.catalog
       /\ fetched' = [date |-> seed_date, problems |-> r.problems,
                      all_problems |-> r.all_problems, draws |-> r.draws,
                      loaded |-> r.loaded, cached_before |-> seed_date \in DOMAIN daily,
                      rerun |-> rerun,
                      prev_problems |-> IF rerun THEN fetched.problems ELSE r.problems]
       /\ last' = Ran("fetch", 0, SHOWN, FALSE, goals)
       /\ shown' = NoStats
       /\ UNCHANGED <<now, tz, solved, goals, api, running>>

\* leetcode mark-undo ID
MarkUndo(problem_id) ==
    \E r \in {tracker_mark_problem_unsolved(solved, goals, problem_id, utcnow, today)} :
       /\ solved' = r.solved
       /\ goals' = r.goals
       /\ last' = Ran("mark-undo", problem_id, r.out, r.refreshed, r.goals)
       /\ shown' = NoStats /\ fetched' = NoFetch
       /\ UNCHANGED <<now, tz, catalog, daily, api, running>>

\* leetcode profile
Profile ==
    \E r \in {show_profile(solved, goals, utcnow, today)} :
       /\ goals' = r.goals
       /\ last' = [Ran("profile", 0, SHOWN, TRUE, r.goals) EXCEPT
                      !.total_solved = r.stats.total_solved,
                      !.current_streak = r.stats.current_streak]
       /\ shown' = r.stats /\ fetched' = NoFetch
       /\ UNCHANGED <<now, tz, solved, catalog, daily, api, running>>

\* leetcode goals
Goals ==
    /\ goals' = show_goals(solved, goals, utcnow, today)
    /\ last' = Ran("goals", 0, SHOWN, TRUE, goals')
    /\ shown' = NoStats /\ fetched' = NoFetch
    /\ UNCHANGED <<now, tz, solved, catalog, daily, api, running>>

\* leetcode create-goal: main asks for a difficulty only for difficulty_count
CreateGoal(goal_type, target, typed_difficulty) ==
    /\ Cardinality({i \in 1..Len(goals) : goals[i].name = "user"}) < MaxUserGoals
    /\ LET difficulty == IF goal_type = DIFFICULTY_COUNT THEN typed_difficulty ELSE None
           r == tracker_create_goal(goals, "user", goal_type, target, difficulty, today)
       IN /\ goals' = r.goals
          /\ last' = Ran("create-goal", 0, r.out, FALSE, r.goals)
    /\ shown' = NoStats /\ fetched' = NoFetch
    /\ UNCHANGED <<now, tz, solved, catalog, daily, api, running>>

\* leetcode quick-start
QuickStart ==
    \E r \in {setup_starter_goals(goals, today)} :
       /\ goals' = r.goals
       /\ last' = Ran("quick-start", 0, r.out, FALSE, r.goals)
       /\ shown' = NoStats /\ fetched' = NoFetch
       /\ UNCHANGED <<now, tz, solved, catalog, daily, api, running>>

\* the clock advances between invocations
Tick ==
    /\ \E u \in Instants : u > now
    /\ now' = NextInstant(now)
    /\ last' = Idle
    /\ shown' = NoStats /\ fetched' = NoFetch
    /\ UNCHANGED <<tz, solved, goals, catalog, daily, api, running>>

\* what the remote API may answer; no request is sent on a valid cache
Answers(force_refresh) ==
    IF force_refresh \/ ~is_cache_valid(catalog, today)
    THEN Responses
    ELSE {[ok |-> FALSE, problems |-> {}]}

Next ==
    \/ \E problem_id \in PIDs, force_refresh \in BOOLEAN :
           \E response \in Answers(force_refresh) :
               MarkDone(problem_id, force_refresh, response)
    \/ \E problem_id \in PIDs : MarkUndo(problem_id)
    \/ Profile
    \/ Goals
    \/ \E goal_type \in GoalTypeInputs, target \in Targets,
          typed_difficulty \in DifficultyInputs :
           CreateGoal(goal_type, target, typed_difficulty)
    \/ QuickStart
    \/ Tick

Spec == Init /\ [][Next]_vars

(***************************************************************************)
(* The daily selection: fetch, mark-done and mark-undo over the larger     *)
(* catalogs, on one day.                                                   *)
(***************************************************************************)
\* parse_date_arg: --today, --yesterday
FetchDates == {today, today - 1}

\* the generator states a process may start with
ProcessStates == {0, 1}

DailyAnswers(force_refresh) ==
    IF force_refresh \/ ~is_cache_valid(catalog, today)
    THEN DailyResponses
    ELSE {[ok |-> FALSE, problems |-> {}]}

NextDaily ==
    \/ \E seed_date \in FetchDates, force_refresh \in BOOLEAN, process_state \in ProcessStates :
           \E response \in DailyAnswers(FALSE) :
               Fetch(seed_date, force_refresh, response, process_state)
    \/ \E problem_id \in DailyPIDs, force_refresh \in BOOLEAN :
           \E response \in DailyAnswers(force_refresh) :
               MarkDone(problem_id, force_refresh, response)
    \/ \E problem_id \in DailyPIDs : MarkUndo(problem_id)

SpecDaily == Init /\ [][NextDaily]_vars

(***************************************************************************)
(* The statistics: profile applied to every ledger of up to MaxSolves      *)
(* records of the days 0..MaxStreakDay, on each of those days and on the   *)
(* day HEATMAP_DAYS later, when all of them have left the heatmap.         *)
(***************************************************************************)
StatsInstants ==
    {d * TicksPerDay + k : d \in (0..MaxStreakDay) \cup {MaxStreakDay + HEATMAP_DAYS},
                           k \in 0..(TicksPerDay - 1)}

\* the completed_at stamps of a ledger of k records written up to instant top
RECURSIVE Stamps(_, _)
Stamps(k, top) ==
    IF k = 0 THEN {<<>>}
    ELSE UNION {{Append(s, t) : s \in Stamps(k - 1, t)} :
                   t \in {u \in StatsInstants : u <= top}}

StatsLedgers(top) ==
    {[i \in 1..Len(s) |-> from_problem(Problem(i), s[i])] :
        s \in UNION {Stamps(k, top) : k \in 0..MaxSolves}}

InitStats ==
    /\ now \in StatsInstants
    /\ tz \in TZs
    /\ solved \in StatsLedgers(now)
    /\ goals = <<>>
    /\ catalog = [exists |-> FALSE, problems |-> {}, mdate |-> 0]
    /\ last = Idle
    /\ daily = NoSelections
    /\ fetched = NoFetch
    /\ shown = NoStats
    /\ api = NoRequest
    /\ running = NoInvocations

SpecStats == InitStats /\ [][Profile]_vars

(***************************************************************************)
(* The remote fetch, step by step: a get_all_problems that is past the     *)
(* cache calls fetch_all_problems and caches what it returns.              *)
(***************************************************************************)
InitApi ==
    /\ now = 0
    /\ tz = 0
    /\ solved = <<>>
    /\ goals = <<>>
    /\ catalog = [exists |-> FALSE, problems |-> {}, mdate |-> 0]
    /\ last = Idle
    /\ daily = NoSelections
    /\ fetched = NoFetch
    /\ shown = NoStats
    /\ api = [NoRequest EXCEPT !.pc = IF MAX_RETRIES > 0 THEN "request" ELSE "returned"]
    /\ running = NoInvocations

\* session.post, raise_for_status, response.json and the parsing loop
Request(outcome) ==
    /\ api.pc = "request"
    /\ api' = api_request(api, outcome)
    /\ UNCHANGED <<now, tz, solved, goals, catalog, last, daily, fetched, shown, running>>

\* await asyncio.sleep(2 ** attempt)
Sleep ==
    /\ api.pc = "sleep"
    /\ api' = api_sleep(api)
    /\ UNCHANGED <<now, tz, solved, goals, catalog, last, daily, fetched, shown, running>>

\* get_all_problems takes the dict, or catches the exception and falls back
Answer ==
    /\ api.pc \in {"returned", "raised"}
    /\ catalog' = get_all_problems(catalog, TRUE, api_response(api), today).cache
    /\ api' = [api EXCEPT !.pc = "done"]
    /\ UNCHANGED <<now, tz, solved, goals, last, daily, fetched, shown, running>>

NextApi ==
    \/ \E outcome \in Outcomes : Request(outcome)
    \/ Sleep
    \/ Answer

SpecApi == InitApi /\ [][NextApi]_vars

(***************************************************************************)
(* Properties.                                                             *)
(***************************************************************************)
HasRecord(ledger, problem_id) ==
    \E k \in 1..Len(ledger) : ledger[k].problem_id = problem_id

IdsOf(ledger) == {ledger[k].problem_id : k \in 1..Len(ledger)}

\* C1: the ledger holds at most one SolvedRecord per problem id, in every
\* state reachable from the empty ledger.
C1_UniqueRecords ==
    \A i, j \in 1..Len(solved) :
        solved[i].problem_id = solved[j].problem_id => i = j

\* mark-done was just refused for an id already in a ledger of two records
C1_Witness ==
    /\ last.cmd = "mark-done"
    /\ last.out = ALREADY_SOLVED
    /\ Len(solved) >= 2

\* C2: a goal that is Completed or Failed keeps its status and its stored
\* current through every later step (commands and the passage of days).
C2_TerminalFrozen ==
    [][\A i \in 1..Len(goals) :
           goals[i].status \in {COMPLETED, FAILED} =>
               /\ i <= Len(goals')
               /\ goals'[i].status = goals[i].status
               /\ goals'[i].current = goals[i].current]_vars

\* a refresh after mark-undo has left a Completed total-solved goal with a
\* stored current above the size of the ledger
C2_Witness ==
    /\ last.cmd = "mark-undo"
    /\ last.refreshed
    /\ \E i \in 1..Len(goals) :
           /\ goals[i].status = COMPLETED
           /\ goals[i].type = TOTAL_SOLVED
           /\ goals[i].current > Len(solved)

\* the current the goal's type prescribes for a ledger, stated on sets
PrescribedCurrent(goal, ledger, tnow, tday) ==
    CASE goal.type = TOTAL_SOLVED -> Len(ledger)
      [] goal.type = DAILY_STREAK ->
             Cardinality({k \in 0..Len(ledger) :
                 \A j \in 0..k :
                     \E r \in 1..Len(ledger) : DateOf(ledger[r].completed_at) = tday - j})
      [] goal.type = DIFFICULTY_COUNT /\ goal.difficulty # None ->
             Cardinality({r \in 1..Len(ledger) : ledger[r].difficulty = goal.difficulty})
      [] goal.type = WEEKLY_TARGET ->
             Cardinality({r \in 1..Len(ledger) :
                 ledger[r].completed_at >= tnow - 7 * TicksPerDay})
      [] OTHER -> goal.current

\* C3: a refresh moves an Active goal to Completed exactly when its recomputed
\* current >= target, otherwise to Failed exactly when its deadline is strictly
\* before today, otherwise leaves it Active.
C3_RefreshTransition ==
    [][last'.refreshed =>
           \A i \in 1..Len(goals) :
               goals[i].status = ACTIVE =>
                   goals'[i].status =
                       IF PrescribedCurrent(goals[i], solved', now', today') >= goals[i].target
                       THEN COMPLETED
                       ELSE IF goals[i].deadline < today' THEN FAILED
                       ELSE ACTIVE]_vars

\* a refresh has just completed a goal whose deadline had already passed
C3_Witness ==
    /\ last.refreshed
    /\ \E i \in 1..Len(goals) :
           /\ goals[i].id \in last.moved
           /\ goals[i].status = COMPLETED
           /\ goals[i].deadline < today

\* C4 as claimed: for every ledger and id, mark-done(id) followed by
\* mark-undo(id) leaves the set of ids the ledger had before the two commands.
C4_RoundTripAnyLedger ==
    [][(/\ last.cmd = "mark-done"
        /\ last'.cmd = "mark-undo"
        /\ last'.id = last.id)
           => IdsOf(solved') = IdsOf(last.before)]_vars

\* C4 amended: when the ledger holds no record for id, mark-done(id) followed
\* by mark-undo(id) restores the ledger (the same records in the same order).
C4_RoundTrip ==
    [][(/\ last.cmd = "mark-done"
        /\ ~HasRecord(last.before, last.id)
        /\ last'.cmd = "mark-undo"
        /\ last'.id = last.id)
           => /\ solved' = last.before
              /\ IdsOf(solved') = IdsOf(last.before)]_vars

\* mark-undo has just removed the record the mark-done before it appended,
\* and other records remain
C4_Witness ==
    /\ last.cmd = "mark-undo"
    /\ last.out = MARKED_UNSOLVED
    /\ last.prev_out = MARKED_SOLVED
    /\ Len(solved) >= 1

\* C5: after a mark-done(id) that left id in the ledger, an immediate second
\* mark-done(id) changes no record, runs no refresh and reports "already solved".
C5_SecondMarkDone ==
    [][(/\ last.cmd = "mark-done"
        /\ last.out \in {MARKED_SOLVED, ALREADY_SOLVED}
        /\ last'.cmd = "mark-done"
        /\ last'.id = last.id)
           => /\ solved' = solved
              /\ Cardinality({k \in 1..Len(solved') : solved'[k].problem_id = last.id}) = 1
              /\ ~last'.refreshed
              /\ last'.out = ALREADY_SOLVED]_vars

\* C6: mark-done(id) on a ledger that already holds id reports "already
\* solved" and leaves the ledger unchanged, whatever the catalog holds.
C6_AlreadySolvedWins ==
    (last.cmd = "mark-done" /\ HasRecord(last.before, last.id))
        => (last.out = ALREADY_SOLVED /\ solved = last.before)

\* C7: mark-done(id) for an id the catalog does not hold reports "not found",
\* leaves the ledger and the goal store as they were and runs no refresh.
\* (The dict the handler looks the id up in is what the cache file holds
\* afterwards: the cached one, the fetched one it has just cached, or the
\* cached one it fell back to.)
C7_NotFoundMutatesNothing ==
    [][(last'.cmd = "mark-done" /\ last'.id \notin catalog'.problems)
           => /\ last'.out = NOT_FOUND
              /\ solved' = solved
              /\ goals' = goals
              /\ ~last'.refreshed]_vars

\* "not found" was just reported while the ledger is non-empty and an Active
\* goal is past its deadline (a refresh would have failed it)
C7_Witness ==
    /\ last.cmd = "mark-done"
    /\ last.out = NOT_FOUND
    /\ last.id \notin catalog.problems
    /\ Len(solved) >= 1
    /\ \E i \in 1..Len(goals) : goals[i].status = ACTIVE /\ goals[i].deadline < today

\* C8: create-goal of type per-difficulty count with no difficulty is refused,
\* so the store never holds a per-difficulty goal with an unset difficulty.
C8_DifficultyRequired ==
    /\ \A i \in 1..Len(goals) :
           goals[i].type = DIFFICULTY_COUNT => goals[i].difficulty # None
    /\ (last.cmd = "create-goal" /\ last.out = GOAL_CREATED) =>
           ~(goals[Len(goals)].type = DIFFICULTY_COUNT
                 /\ goals[Len(goals)].difficulty = None)

\* C9: quick-start on an empty store leaves exactly three Active goals
\* (total-solved 5 in 14 days, weekly-target 3 in 7 days, daily-streak 3 in 10
\* days) with distinct ids; on a store holding any goal it changes nothing;
\* and no step empties the store, so the bootstrap adds goals at most once.
C9_Bootstrap ==
    [][/\ (last'.cmd = "quick-start" /\ Len(goals) = 0) =>
              /\ last'.out = STARTERS_CREATED
              /\ Len(goals') = 3
              /\ \A i \in 1..3 : goals'[i].status = ACTIVE
              /\ <<goals'[1].type, goals'[1].target, goals'[1].deadline>>
                     = <<TOTAL_SOLVED, 5, today + 14>>
              /\ <<goals'[2].type, goals'[2].target, goals'[2].deadline>>
                     = <<WEEKLY_TARGET, 3, today + 7>>
              /\ <<goals'[3].type, goals'[3].target, goals'[3].deadline>>
                     = <<DAILY_STREAK, 3, today + 10>>
              /\ Cardinality({goals'[i].id : i \in 1..3}) = 3
       /\ (last'.cmd = "quick-start" /\ Len(goals) # 0) =>
              /\ last'.out = HAS_GOALS
              /\ goals' = goals
       /\ Len(goals') >= Len(goals)]_vars

\* quick-start was just refused on a store that holds the three starter
\* goals, none of them Active any more
C9_Witness ==
    /\ last.cmd = "quick-start"
    /\ last.out = HAS_GOALS
    /\ Len(goals) = 3
    /\ goals[1].name = "First Steps"
    /\ \A i \in 1..Len(goals) : goals[i].status # ACTIVE

\* C10 as claimed: with an empty ledger and an empty goal store the profile
\* view shows 0 solved and a streak of 0 and leaves three goals in the store.
C10_ProfileBootstraps ==
    [][(last'.cmd = "profile" /\ Len(solved) = 0 /\ Len(goals) = 0)
           => /\ last'.total_solved = 0
              /\ last'.current_streak = 0
              /\ Len(goals') = 3]_vars

\* C10 amended: with an empty ledger and an empty goal store the profile view
\* shows 0 solved and a streak of 0 and leaves the goal store empty; the
\* starter goals come from quick-start alone.
C10_ProfileEmpty ==
    [][/\ (last'.cmd = "profile" /\ Len(solved) = 0 /\ Len(goals) = 0)
              => /\ last'.total_solved = 0
                 /\ last'.current_streak = 0
                 /\ Len(goals') = 0
       /\ (Len(goals) = 0 /\ Len(goals') # 0)
              => last'.cmd \in {"quick-start", "create-goal"}]_vars

\* the profile was just shown on a later day with nothing solved and no goals
C10_Witness ==
    /\ last.cmd = "profile"
    /\ Len(solved) = 0
    /\ Len(goals) = 0
    /\ last.total_solved = 0
    /\ last.current_streak = 0
    /\ today > 0

(***************************************************************************)
(* The daily selection (SpecDaily).                                        *)
(***************************************************************************)
\* C11: a fetch for a date whose selection is already in the daily cache is
\* a cache hit: it makes no random draw and does not load the catalog.
C11_CacheHit ==
    last.cmd = "fetch" /\ fetched.cached_before
        => fetched.draws = 0 /\ ~fetched.loaded

\* C12: the selection stored for a date is never replaced by a different
\* one, whatever is marked solved or unsolved in between (stated for the
\* steps that leave the catalog cache as it was).
C12_StoredSelectionKept ==
    [][catalog' = catalog
          => \A d \in DOMAIN daily : d \in DOMAIN daily' /\ daily'[d] = daily[d]]_vars

\* the candidates of a tier: in the catalog, free, of the tier, not solved
Eligible(all_problems, ledger, diff) ==
    {pid \in all_problems :
        /\ ~PaidOnly(pid)
        /\ DifficultyOf(pid) = diff
        /\ ~HasRecord(ledger, pid)}

\* C13: two runs of fetch for the same date over the same catalog and the
\* same ledger show the same problem for every tier, whatever state the
\* random generator of each process started in.
C13_SameDateSameSelection ==
    last.cmd = "fetch" /\ fetched.rerun => fetched.problems = fetched.prev_problems

C13_Witness ==
    /\ last.cmd = "fetch"
    /\ fetched.rerun
    /\ fetched.draws >= 2
    /\ Cardinality(Eligible(fetched.all_problems, solved, EASY)) >= 2

\* C14: right after a fetch, each tier shows no problem exactly when it has
\* no candidate, and otherwise one problem of the catalog that is free, of
\* the tier's difficulty and not in the ledger.
C14_SelectionEligible ==
    last.cmd = "fetch" =>
        \A diff \in Difficulty :
            LET candidates == Eligible(fetched.all_problems, solved, diff)
            IN IF candidates = {}
               THEN fetched.problems[diff] = NoProblem
               ELSE fetched.problems[diff] \in candidates

C14_Witness ==
    /\ last.cmd = "fetch"
    /\ HasRecord(solved, 1)
    /\ fetched.problems[EASY] = 4
    /\ 2 \in fetched.all_problems
    /\ fetched.problems[MEDIUM] = NoProblem
    /\ fetched.problems[HARD] # NoProblem

(***************************************************************************)
(* The statistics (SpecStats).                                             *)
(***************************************************************************)
\* the number of consecutive dates, today first and going back, in dates
ConsecutiveBack(dates, tday) ==
    Cardinality({k \in 1..Cardinality(dates) : \A j \in 0..(k - 1) : tday - j \in dates})

\* C15: the current streak a profile shows is the number of consecutive
\* calendar dates, from today backwards, that each have a solve; it is 0
\* when today has none and for the empty ledger.
C15_CurrentStreak ==
    last.cmd = "profile" =>
        /\ shown.current_streak = ConsecutiveBack(SolvedDates(solved), today)
        /\ (today \notin SolvedDates(solved) => shown.current_streak = 0)
        /\ (Len(solved) = 0 => shown.current_streak = 0)

C15_Witness ==
    /\ last.cmd = "profile"
    /\ shown.current_streak = 3
    /\ Cardinality(SolvedDates(solved)) = 4

\* n consecutive dates from a on are all in dates
IsRun(dates, a, n) == \A j \in 0..(n - 1) : a + j \in dates

LongestRun(dates) ==
    IF dates = {} THEN 0
    ELSE CHOOSE n \in 1..Cardinality(dates) :
             /\ \E a \in dates : IsRun(dates, a, n)
             /\ \A m \in (n + 1)..Cardinality(dates) : \A a \in dates : ~IsRun(dates, a, m)

\* C16: the longest streak a profile shows is the length of the longest run
\* of consecutive dates among the solve dates: 0 for the empty ledger, 1 for
\* a ledger with no two adjacent dates.
C16_LongestStreak ==
    last.cmd = "profile" =>
        /\ shown.longest_streak = LongestRun(SolvedDates(solved))
        /\ (Len(solved) = 0 => shown.longest_streak = 0)
        /\ (Len(solved) # 0 /\ (\A d \in SolvedDates(solved) : d + 1 \notin SolvedDates(solved))
               => shown.longest_streak = 1)

C16_Witness ==
    /\ last.cmd = "profile"
    /\ shown.longest_streak = 2
    /\ shown.current_streak = 0
    /\ Cardinality(SolvedDates(solved)) = 4

\* C17: the heatmap a profile shows has exactly 30 symbols, each one of the
\* five level symbols, for every ledger.
C17_HeatmapShape ==
    last.cmd = "profile" =>
        /\ Len(shown.heatmap) = 30
        /\ \A i \in 1..Len(shown.heatmap) :
               shown.heatmap[i] \in {HEATMAP_LEVELS[level] : level \in 0..4}

C17_Witness ==
    /\ last.cmd = "profile"
    /\ shown.heatmap[30] = "red"
    /\ shown.heatmap[29] = "black"
    /\ \E i \in 1..Len(solved) : DateOf(solved[i].completed_at) < today - 29

(***************************************************************************)
(* The goal store (Spec).                                                  *)
(***************************************************************************)
\* C18: right after a successful mark-done or mark-undo, every Active goal
\* holds the value its type prescribes for the new ledger, and no goal is
\* Active with current at or above its target.
C18_RefreshedAfterMark ==
    last.cmd \in {"mark-done", "mark-undo"} /\ last.out \in {MARKED_SOLVED, MARKED_UNSOLVED}
        => \A i \in 1..Len(goals) :
               goals[i].status = ACTIVE
                   => /\ goals[i].current = PrescribedCurrent(goals[i], solved, utcnow, today)
                      /\ goals[i].current < goals[i].target

C18_Witness ==
    /\ last.cmd = "mark-undo"
    /\ last.out = MARKED_UNSOLVED
    /\ Len(last.before) = 2
    /\ \E i \in 1..Len(goals) :
           /\ goals[i].status = ACTIVE
           /\ goals[i].type = WEEKLY_TARGET
           /\ goals[i].current = 1

\* the stored current of every Active goal is the value recomputed from the
\* ledger and the clock
CurrentIsFresh ==
    \A i \in 1..Len(goals) :
        goals[i].status = ACTIVE
            => goals[i].current = PrescribedCurrent(goals[i], solved, utcnow, today)

\* C19 as stated: CurrentIsFresh in the state left by every command that
\* changes the ledger or the goal store, create-goal and quick-start too.
C19_FreshAfterEveryChange ==
    (\/ last.cmd \in {"profile", "goals"}
     \/ last.out \in {MARKED_SOLVED, MARKED_UNSOLVED, GOAL_CREATED, STARTERS_CREATED})
        => CurrentIsFresh

\* C19: in the state left by a command that ran the goal refresh (a
\* successful mark-done or mark-undo, profile, goals) the stored current of
\* every Active goal is the recomputed value.
C19_FreshAfterRefresh == last.refreshed => CurrentIsFresh

C19_Witness ==
    /\ last.cmd = "goals"
    /\ last.refreshed
    /\ Len(solved) = 2
    /\ \E i \in 1..Len(goals) :
           /\ goals[i].status = ACTIVE
           /\ goals[i].type = TOTAL_SOLVED
           /\ goals[i].current = 2
    /\ \E i \in 1..Len(goals) :
           /\ goals[i].status = ACTIVE
           /\ goals[i].type = WEEKLY_TARGET
           /\ goals[i].current = 1

\* C20: goal ids are pairwise distinct, and every goal has an id above the
\* ids of all goals stored before it, the first one having id 1.
C20_GoalIds ==
    \A j \in 1..Len(goals) :
        /\ j = 1 => goals[j].id = 1
        /\ \A i \in 1..(j - 1) : goals[i].id < goals[j].id

C20_Witness ==
    /\ last.cmd = "create-goal"
    /\ last.out = GOAL_CREATED
    /\ Len(goals) = 4
    /\ goals[4].id = 4

(***************************************************************************)
(* Failures and the force-refresh flag (SpecDaily).                        *)
(***************************************************************************)
\* C21: a fetch or mark-done whose remote catalog fetch failed on every
\* attempt leaves the ledger, the goal store and the daily cache as they
\* were; a failed fetch adds no entry for its date.
C21_FailedFetchNoChange ==
    [][(\/ \E seed_date \in FetchDates, force_refresh \in BOOLEAN,
              process_state \in ProcessStates :
               /\ ~is_cache_valid(catalog, today)
               /\ Fetch(seed_date, force_refresh, FetchFailed, process_state)
        \/ \E problem_id \in DailyPIDs, force_refresh \in BOOLEAN :
               /\ force_refresh \/ ~is_cache_valid(catalog, today)
               /\ MarkDone(problem_id, force_refresh, FetchFailed))
          => solved' = solved /\ goals' = goals /\ daily' = daily]_vars

\* C22: with the force-refresh flag, fetch and mark-done both take the
\* catalog from the remote API: when the API answers with catalog c, c is
\* the catalog cached afterwards, whatever cache there was.
C22_ForceRefreshBypasses ==
    [][\A c \in DailyCatalogs :
           (\/ \E seed_date \in FetchDates, process_state \in ProcessStates :
                   Fetch(seed_date, TRUE, [ok |-> TRUE, problems |-> c], process_state)
            \/ \E problem_id \in DailyPIDs :
                   MarkDone(problem_id, TRUE, [ok |-> TRUE, problems |-> c]))
               => catalog'.exists /\ catalog'.problems = c]_vars

(***************************************************************************)
(* The retry loop (SpecApi).                                               *)
(***************************************************************************)
\* C23: the remote fetch makes at most 3 requests; a success returns at
\* once; a failed request before the third is followed by a sleep of 1 and
\* then 2 seconds and one more request; only the failure of the third
\* request is raised, and a failure never returns an empty catalog.
C23_RetryLoop ==
    /\ api.requests <= 3
    /\ api.pc \in {"returned", "raised"}
           => api.slept = [k \in 1..(api.requests - 1) |-> 2 ^ (k - 1)]
    /\ api.pc = "raised" => api.requests = 3
    /\ api.pc = "returned" => Len(api.caught) = api.requests - 1

(***************************************************************************)
(* The time zone: the commands that stamp and count solves, run at any     *)
(* instant of the first days in any zone (SpecZone).  Records are stamped  *)
(* with utcnow(), the statistics count back from date.today().             *)
(***************************************************************************)
ZoneInstants == 0..((MaxDay + 1) * TicksPerDay - 1)

InitZone ==
    /\ now \in ZoneInstants
    /\ tz \in TZs
    /\ solved = <<>>
    /\ goals = <<>>
    /\ catalog = [exists |-> FALSE, problems |-> {}, mdate |-> 0]
    /\ last = Idle
    /\ daily = NoSelections
    /\ fetched = NoFetch
    /\ shown = NoStats
    /\ api = NoRequest
    /\ running = NoInvocations

NextZone ==
    \/ \E problem_id \in PIDs, force_refresh \in BOOLEAN :
           \E response \in Answers(force_refresh) :
               MarkDone(problem_id, force_refresh, response)
    \/ \E problem_id \in PIDs : MarkUndo(problem_id)
    \/ Profile
    \/ QuickStart

SpecZone == InitZone /\ [][NextZone]_vars

\* C25: right after a successful mark-done, the statistics of the ledger
\* count the solve as today's, whatever the offset between the UTC date of
\* the stamp and the local date: the current streak is at least 1 and the
\* newest heatmap position is not the level-0 symbol.
C25_SolveCountsToday ==
    (last.cmd = "mark-done" /\ last.out = MARKED_SOLVED) =>
        \E stats \in {calculate_stats(solved, today)} :
            /\ stats.current_streak >= 1
            /\ stats.heatmap[HEATMAP_DAYS] # HEATMAP_LEVELS[0]

(***************************************************************************)
(* Concurrent invocations on the ledger file (SpecRace).  Each invocation  *)
(* is mark-done or mark-undo of a problem its catalog holds; its read of   *)
(* solved_problems.json (get_solved_problems) and its write                *)
(* (save_solved_problems) are two steps, and the steps of the invocations  *)
(* interleave.  There are no goals, so update_goal_progress returns at     *)
(* once.                                                                   *)
(***************************************************************************)
Invocations == 1..MaxInvocations

Waiting == [pc |-> "idle", cmd |-> "none", id |-> 0, read |-> <<>>, wrote |-> FALSE]

InitRace ==
    /\ now = 0
    /\ tz = 0
    /\ solved = <<>>
    /\ goals = <<>>
    /\ catalog = [exists |-> FALSE, problems |-> {}, mdate |-> 0]
    /\ last = Idle
    /\ daily = NoSelections
    /\ fetched = NoFetch
    /\ shown = NoStats
    /\ api = NoRequest
    /\ running = [NoInvocations EXCEPT !.procs = [p \in Invocations |-> Waiting]]

\* what the invocation makes of the ledger it read
RaceResult(inv) ==
    IF inv.cmd = "mark-done"
    THEN mark_problem_solved(inv.read, inv.id, Problem(inv.id), utcnow)
    ELSE mark_problem_unsolved(inv.read, inv.id)

\* an invocation of the tool begins
Start(p, cmd, problem_id) ==
    /\ running.procs[p].pc \in {"idle", "done"}
    /\ running' = [running EXCEPT !.procs[p] =
                       [pc |-> "read", cmd |-> cmd, id |-> problem_id,
                        read |-> <<>>, wrote |-> FALSE]]
    /\ UNCHANGED <<now, tz, solved, goals, catalog, last, daily, fetched, shown, api>>

\* solved = self.get_solved_problems()
Read(p) ==
    /\ running.procs[p].pc = "read"
    /\ running' = [running EXCEPT !.procs[p].read = solved, !.procs[p].pc = "write"]
    /\ UNCHANGED <<now, tz, solved, goals, catalog, last, daily, fetched, shown, api>>

\* return self.save_solved_problems(solved)
Write(p) ==
    /\ running.procs[p].pc = "write"
    /\ \E r \in {RaceResult(running.procs[p])} :
           /\ r.ok
           /\ solved' = r.solved
           /\ running' = [running EXCEPT !.procs[p].pc = "done",
                                         !.procs[p].wrote = TRUE,
                                         !.last_writer = p,
                                         !.written = r.solved]
    /\ UNCHANGED <<now, tz, goals, catalog, last, daily, fetched, shown, api>>

\* return False: already solved, or not solved
Skip(p) ==
    /\ running.procs[p].pc = "write"
    /\ ~RaceResult(running.procs[p]).ok
    /\ running' = [running EXCEPT !.procs[p].pc = "done"]
    /\ UNCHANGED <<now, tz, solved, goals, catalog, last, daily, fetched, shown, api>>

NextRace ==
    \/ \E p \in Invocations, cmd \in {"mark-done", "mark-undo"}, problem_id \in PIDs :
           Start(p, cmd, problem_id)
    \/ \E p \in Invocations : Read(p)
    \/ \E p \in Invocations : Write(p)
    \/ \E p \in Invocations : Skip(p)

SpecRace == InitRace /\ [][NextRace]_vars

\* C27: with the whole-file read and the whole-file write of each
\* invocation as separate steps, interleaved in any order, the ledger holds
\* at most one record per problem id in every reachable state, and it is
\* exactly the document the latest writer wrote.
C27_RaceKeepsUnique ==
    /\ \A i, j \in 1..Len(solved) :
           i # j => solved[i].problem_id # solved[j].problem_id
    /\ running.last_writer # 0 => solved = running.written

\* two mark-done of the same id both read the empty ledger and both wrote
C27_Witness ==
    /\ \A p \in Invocations :
           /\ running.procs[p].pc = "done"
           /\ running.procs[p].cmd = "mark-done"
           /\ running.procs[p].id = 1
           /\ running.procs[p].read = <<>>
           /\ running.procs[p].wrote
    /\ Len(solved) = 1

(***************************************************************************)
(* More on the statistics (SpecStats).                                     *)
(***************************************************************************)
\* min(c, 4)
LevelOf(c) == IF c < 4 THEN c ELSE 4

\* the number of records whose completion date is day
SolvesOn(ledger, day) ==
    Cardinality({r \in 1..Len(ledger) : DateOf(ledger[r].completed_at) = day})

\* C24: position i of the heatmap a profile shows (0 the oldest, 29 today)
\* is the symbol of level min(c, 4), c being the number of records completed
\* on today - 29 + i; records of other dates change nothing, and the five
\* symbols are distinct, so a higher count never shows a lower level.
C24_HeatmapPositions ==
    last.cmd = "profile" =>
        /\ \A i \in 0..29 :
               shown.heatmap[i + 1] = HEATMAP_LEVELS[LevelOf(SolvesOn(solved, today - 29 + i))]
        /\ \A l1, l2 \in 0..4 : l1 # l2 => HEATMAP_LEVELS[l1] # HEATMAP_LEVELS[l2]

C24_Witness ==
    /\ last.cmd = "profile"
    /\ shown.heatmap[30] = "yellow"
    /\ shown.heatmap[29] = "green"
    /\ shown.heatmap[27] = "yellow"
    /\ shown.heatmap[26] = "black"

\* C26: in the statistics a profile shows, the current streak is at most
\* the longest streak, and the per-difficulty counts add up to
\* total_solved, the number of ledger records.
C26_StatsConsistent ==
    last.cmd = "profile" =>
        /\ shown.current_streak <= shown.longest_streak
        /\ shown.by_difficulty[EASY] + shown.by_difficulty[MEDIUM]
               + shown.by_difficulty[HARD] = shown.total_solved
        /\ shown.total_solved = Len(solved)

C26_Witness ==
    /\ last.cmd = "profile"
    /\ shown.current_streak = 2
    /\ shown.longest_streak = 3
    /\ shown.by_difficulty[HARD] = 1
    /\ shown.total_solved = 5

====
